---- MODULE Spec2Model ----
(***************************************************************************)
(* Personal-Finance-Visualizer: the record store (transactions, budgets,   *)
(* categories) and the analytics routes of server/routes/analytics.js.     *)
(*                                                                         *)
(* Conventions of the model                                                *)
(*  - amounts are integers, so sums are exact; a quotient computed by the   *)
(*    code is kept as an exact fraction [n, d] in lowest terms;             *)
(*  - an instant is [year, month, day, hour]; the server's local time zone  *)
(*    is taken to be UTC, so the local-time Date constructor and the UTC    *)
(*    $month operator agree on the calendar;                                *)
(*  - the order in which the store returns documents or $group rows is not  *)
(*    specified by MongoDB: every order is a possible outcome.              *)
(*  - a store query can reject: every analytics handler has, next to its    *)
(*    result, the outcomes in which one of its awaited queries rejects;     *)
(*    queries records the queries the handler issued.                       *)
(***************************************************************************)
EXTENDS Integers, Sequences, FiniteSets, Bags, TLC

VARIABLES
    transactions,   \* bag of stored Transaction documents
    budgets,        \* set of stored Budget documents
    categories,     \* set of stored Category documents
    req,            \* the request being answered: route and parameters
    locals,         \* values the handler fetched or computed on the way
    resp,           \* the HTTP response: status and body
    prevResp,       \* response of the previous identical read, NoResp otherwise
    queries,        \* the store queries the request issued, in order
    pending,        \* budget requests between two awaits: where each one stands
    client          \* the client's transaction and category stores

vars == <<transactions, budgets, categories, req, locals, resp, prevResp, queries,
          pending, client>>

(***************************************************************************)
(* Bounds of the model.                                                    *)
(***************************************************************************)
MaxTx == 3

(***************************************************************************)
(* Values.                                                                 *)
(***************************************************************************)
Null    == "null"
NoResp  == [status |-> 0, body |-> <<>>]
NoReq   == [op |-> "none"]
NoLocals == [none |-> TRUE]

TxTypes == {"expense", "income"}

MkDate(y, m, d, h) == [year |-> y, month |-> m, day |-> d, hour |-> h]

\* a number that orders instants as the store's date comparison does
DateKey(d) == ((d.year * 12 + (d.month - 1)) * 31 + (d.day - 1)) * 24 + d.hour

IsLeap(y) == (y % 4 = 0 /\ y % 100 # 0) \/ y % 400 = 0

\* the length of the month before: new Date(y, m, 0) with m one too small
DaysInMonth_OfMonthBefore(y, m) ==
    IF m = 3 THEN (IF IsLeap(y) THEN 29 ELSE 28)
    ELSE IF m \in {5, 7, 10, 12} THEN 30 ELSE 31

\* new Date(y, m, 0).getDate() for the 1-based month m: the days of month m
DaysInMonth(y, m) ==
    IF m = 2 THEN (IF IsLeap(y) THEN 29 ELSE 28)
    ELSE IF m \in {4, 6, 9, 11} THEN 30 ELSE 31

MkTx(a, ty, c, d) == [amount |-> a, type |-> ty, categoryId |-> c, date |-> d]

\* all orders in which a set of rows can come back from the store
Perms(S) ==
    {f \in [1..Cardinality(S) -> S] : \A i, j \in 1..Cardinality(S) : f[i] = f[j] => i = j}

RECURSIVE SumOver(_, _)
\* $sum: "$amount" over the documents of bag B that lie in set S
SumOver(S, B) ==
    IF S = {} THEN 0
    ELSE LET t == CHOOSE x \in S : TRUE
         IN  t.amount * CopiesIn(t, B) + SumOver(S \ {t}, B)

RECURSIVE CountOver(_, _)
\* $sum: 1 over the documents of bag B that lie in set S
CountOver(S, B) ==
    IF S = {} THEN 0
    ELSE LET t == CHOOSE x \in S : TRUE
         IN  CopiesIn(t, B) + CountOver(S \ {t}, B)

\* the distinct documents of the transactions collection
Docs == BagToSet(transactions)

(***************************************************************************)
(* Exact fractions for the quotients the handlers compute.                 *)
(***************************************************************************)
Abs(x) == IF x < 0 THEN 0 - x ELSE x

RECURSIVE GCD(_, _)
GCD(a, b) == IF b = 0 THEN a ELSE GCD(b, a % b)

\* n / d for d # 0, in lowest terms with a positive denominator
Rat(n, d) ==
    LET g == GCD(Abs(n), Abs(d))
        s == IF d < 0 THEN 0 - 1 ELSE 1
    IN  [n |-> (s * n) \div g, d |-> (s * d) \div g]

FromInt(k) == [n |-> k, d |-> 1]

RatLess(a, b) == a.n * b.d < b.n * a.d

\* Math.min
RatMin(a, b) == IF RatLess(b, a) THEN b ELSE a

RatAbs(a) == [n |-> Abs(a.n), d |-> a.d]

\* ((a - b) / b) * 100 for b # 0
RatPercentOf(a, b) == Rat((a.n * b.d - b.n * a.d) * 100, b.n * a.d)

\* Number.prototype.toFixed(2): the nearest hundredth, halves away from zero,
\* as a count of hundredths ("12.35" is 1235)
ToFixed2(r) ==
    LET q == (2 * Abs(r.n) * 100 + r.d) \div (2 * r.d)
    IN  IF r.n < 0 THEN 0 - q ELSE q

(***************************************************************************)
(* Transaction routes.                                                     *)
(***************************************************************************)
\* POST /api/transactions with a body that passes validation
PostTransaction(t) ==
    /\ transactions' = transactions (+) SetToBag({t})
    /\ req' = [op |-> "postTransaction"]
    /\ locals' = NoLocals
    /\ resp' = [status |-> 201, body |-> <<t>>]
    /\ prevResp' = NoResp
    /\ UNCHANGED <<pending, client>>
    /\ queries' = <<"Transaction.save">>
    /\ UNCHANGED <<budgets, categories>>

\* DELETE /api/transactions/:id of a stored transaction
DeleteTransaction(t) ==
    /\ BagIn(t, transactions)
    /\ transactions' = transactions (-) SetToBag({t})
    /\ req' = [op |-> "deleteTransaction"]
    /\ locals' = NoLocals
    /\ resp' = [status |-> 200, body |-> <<"Transaction removed">>]
    /\ prevResp' = NoResp
    /\ UNCHANGED <<pending, client>>
    /\ queries' = <<"Transaction.findById", "Transaction.deleteOne">>
    /\ UNCHANGED <<budgets, categories>>

(***************************************************************************)
(* What the analytics handlers share.                                      *)
(***************************************************************************)
\* error.message of a store query that rejects
StoreError == "store query failed"

\* error.message of reading a property of null
TypeErrorMessage == "Cannot read properties of null (reading '_id')"

\* the store is written although the handler only reads
ReadOnly_DropsTransactions ==
    transactions' = EmptyBag /\ UNCHANGED <<budgets, categories>>

\* the handlers call aggregate, find and populate only: nothing is written
ReadOnly == UNCHANGED <<transactions, budgets, categories>>

\* the rejected query is issued a second time before the catch block answers
Rejected_Retries(names, k) ==
    /\ queries' = SubSeq(names, 1, k) \o <<names[k]>>
    /\ locals' = [error |-> StoreError, query |-> names[k]]
    /\ resp' = [status |-> 500, body |-> <<"Server error", StoreError>>]

\* the k-th awaited query of a handler rejects: the awaits before it were
\* issued, the await throws into the catch block (locals holds the caught
\* error), which answers 500 with the error's message; the rest of the try
\* block does not run
Rejected(names, k) ==
    /\ queries' = SubSeq(names, 1, k)
    /\ locals' = [error |-> StoreError, query |-> names[k]]
    /\ resp' = [status |-> 500, body |-> <<"Server error", StoreError>>]

(***************************************************************************)
(* GET /api/analytics/monthly-summary                                      *)
(***************************************************************************)
\* $match: date between `${year}-01-01` and `${year}-12-31`, both midnight UTC
InYearRange(t, year) ==
    /\ DateKey(t.date) >= DateKey(MkDate(year, 1, 1, 0))
    /\ DateKey(t.date) <= DateKey(MkDate(year, 12, 31, 0))

\* first $group: one row per (month, type) with the sum of the amounts
MonthTypeGroups(year) ==
    LET M == {t \in Docs : InYearRange(t, year)}
    IN  {[month |-> k[1], type |-> k[2],
          total |-> SumOver({t \in M : t.date.month = k[1] /\ t.type = k[2]}, transactions)] :
            k \in {<<t.date.month, t.type>> : t \in M}}

\* second $group ($push in arrival order), $sort by month, $project
RECURSIVE PushData(_, _)
PushData(rows, month) ==
    IF rows = <<>> THEN <<>>
    ELSE IF Head(rows).month = month
         THEN <<[type |-> Head(rows).type, amount |-> Head(rows).total]>>
                  \o PushData(Tail(rows), month)
         ELSE PushData(Tail(rows), month)

\* rows: the first $group's output in the order the store produced it
MonthlyPipeline(rows) ==
    LET months == {rows[i].month : i \in DOMAIN rows}
    IN  [m \in months |-> [month |-> m, data |-> PushData(rows, m)]]

HasType(data, ty) == \E i \in DOMAIN data : data[i].type = ty

\* the missing income item is not added
EnsureBoth_ExpenseOnly(data) ==
    IF HasType(data, "expense") THEN data
    ELSE Append(data, [type |-> "expense", amount |-> 0])

\* "Ensure both expense and income are present"
EnsureBoth(data) ==
    LET d1 == IF HasType(data, "expense") THEN data
              ELSE Append(data, [type |-> "expense", amount |-> 0])
    IN  IF HasType(data, "income") THEN d1
        ELSE Append(d1, [type |-> "income", amount |-> 0])

\* the zero entry lacks the income item
ZeroMonth_ExpenseOnly(month) ==
    [month |-> month, data |-> <<[type |-> "expense", amount |-> 0]>>]

\* "Add month with zero values"
ZeroMonth(month) ==
    [month |-> month,
     data |-> <<[type |-> "expense", amount |-> 0], [type |-> "income", amount |-> 0]>>]

\* the loop stops one month early
FillMonths_StopsAtEleven(summary) ==
    [month \in 1..11 |->
        IF month \in DOMAIN summary
        THEN [month |-> month, data |-> EnsureBoth(summary[month].data)]
        ELSE ZeroMonth(month)]

\* "Fill in missing months with zero values"
FillMonths(summary) ==
    [month \in 1..12 |->
        IF month \in DOMAIN summary
        THEN [month |-> month, data |-> EnsureBoth(summary[month].data)]
        ELSE ZeroMonth(month)]

\* the awaited store queries of the handler, by the name they are bound to
MonthlySummaryQueries == <<"monthlySummary">>

MonthlySummary(year) ==
    /\ \/ \E k \in DOMAIN MonthlySummaryQueries : Rejected(MonthlySummaryQueries, k)
       \/ \E rows \in Perms(MonthTypeGroups(year)) :
             /\ queries' = MonthlySummaryQueries
             /\ locals' = [rows |-> rows]
             /\ resp' = [status |-> 200, body |-> FillMonths(MonthlyPipeline(rows))]
    /\ req' = [op |-> "monthlySummary", year |-> year]
    /\ prevResp' = IF req = [op |-> "monthlySummary", year |-> year] THEN resp ELSE NoResp
    /\ UNCHANGED <<pending, client>>
    /\ ReadOnly

(***************************************************************************)
(* GET /api/analytics/category-summary                                     *)
(***************************************************************************)
Uncategorized == "Uncategorized"
DefaultColor  == "#6E7582"

\* the pipeline reads the categoryId path
CategoryPath_CategoryId(t) == t.categoryId

\* "$category" of a stored transaction: the schema has no such path (the
\* reference is categoryId) and strict mode drops it on save, so it is missing
CategoryPath(t) == Null

\* $lookup on localField 'category' and $unwind: the joined category, if any
CategoryInfo(key) == {c \in categories : c._id = key}

\* $group by "$category", with the $ifNull defaults, then $project
CategoryGroups(M) ==
    {[id |-> IF key = Null THEN "uncategorized" ELSE key,
      name |-> IF CategoryInfo(key) = {} THEN Uncategorized
               ELSE (CHOOSE c \in CategoryInfo(key) : TRUE).name,
      color |-> IF CategoryInfo(key) = {} THEN DefaultColor
                ELSE (CHOOSE c \in CategoryInfo(key) : TRUE).color,
      value |-> SumOver({t \in M : CategoryPath(t) = key}, transactions)] :
        key \in {CategoryPath(t) : t \in M}}

\* $sort: { total: -1 }: rows of equal total come in any order
SortedByValue(rows) ==
    {f \in Perms(rows) : \A i, j \in DOMAIN f : i < j => f[i].value >= f[j].value}

CategorySummaryQueries == <<"categorySummary">>

CategorySummary(start, end, type) ==
    /\ \/ \E k \in DOMAIN CategorySummaryQueries : Rejected(CategorySummaryQueries, k)
       \/ LET M == {t \in Docs : /\ DateKey(t.date) >= DateKey(start)
                                  /\ DateKey(t.date) <= DateKey(end)
                                  /\ t.type = type}
          IN  \E out \in SortedByValue(CategoryGroups(M)) :
                 /\ queries' = CategorySummaryQueries
                 /\ locals' = NoLocals
                 /\ resp' = [status |-> 200, body |-> out]
    /\ req' = [op |-> "categorySummary", start |-> start, end |-> end, type |-> type]
    /\ prevResp' = NoResp
    /\ UNCHANGED <<pending, client>>
    /\ ReadOnly

(***************************************************************************)
(* GET /api/analytics/monthly-expenses                                     *)
(***************************************************************************)
MonthNames ==
    <<"Jan", "Feb", "Mar", "Apr", "May", "Jun", "Jul", "Aug", "Sep", "Oct", "Nov", "Dec">>

\* $match on the year and amount < 0, $group by month with the sum of the
\* absolute amounts, $sort by month, $project
MonthlyExpenseGroups(year) ==
    LET M == {t \in Docs : InYearRange(t, year) /\ t.amount < 0}
    IN  [m \in {t.date.month : t \in M} |->
            [month |-> m,
             amount |-> 0 - SumOver({t \in M : t.date.month = m}, transactions)]]

\* "Fill in missing months with zero values", with the month name
FillExpenseMonths(groups) ==
    [month \in 1..12 |->
        [month |-> month,
         name |-> MonthNames[month],
         amount |-> IF month \in DOMAIN groups THEN groups[month].amount ELSE 0]]

MonthlyExpensesQueries == <<"monthlyExpenses">>

MonthlyExpenses(year) ==
    /\ \/ \E k \in DOMAIN MonthlyExpensesQueries : Rejected(MonthlyExpensesQueries, k)
       \/ /\ queries' = MonthlyExpensesQueries
          /\ locals' = NoLocals
          /\ resp' = [status |-> 200, body |-> FillExpenseMonths(MonthlyExpenseGroups(year))]
    /\ req' = [op |-> "monthlyExpenses", year |-> year]
    /\ prevResp' = NoResp
    /\ UNCHANGED <<pending, client>>
    /\ ReadOnly

(***************************************************************************)
(* Category routes.                                                        *)
(***************************************************************************)
\* a Category document with the schema defaults for color, icon, isDefault
NewCategory(id, name) ==
    [_id |-> id, name |-> name, color |-> DefaultColor, icon |-> "tag", type |-> "expense",
     isDefault |-> FALSE]

\* the names in use, folded to lower case as the 'i' flag of RegExp does
LowerCase(name) ==
    CASE name = "Food & Dining" -> "food & dining"
      [] name = "Housing" -> "housing"
      [] name = "HOUSING" -> "housing"
      [] name = "Transportation" -> "transportation"
      [] name = "Pets" -> "pets"
      [] name = "PETS" -> "pets"
      [] OTHER -> name

\* name: { $regex: new RegExp(`^${name}$`, 'i') }, for names without
\* characters that mean something in a regular expression
NameMatches(name, stored) == LowerCase(stored) = LowerCase(name)

\* unique: true on name: the index compares the strings as they are
NameIndexAllows(id, name) == \A c \in categories : c._id # id => c.name # name

\* POST /api/categories with a valid body; id is the ObjectId the new
\* document gets, one that no stored document holds or refers to
CreateCategory(id, name) ==
    /\ \A c \in categories : c._id # id
    /\ \A b \in budgets : b.categoryId # id
    /\ \A t \in Docs : t.categoryId # id
    /\ IF \E c \in categories : NameMatches(name, c.name)
       THEN /\ categories' = categories
            /\ resp' = [status |-> 400, body |-> <<"Category already exists">>]
            /\ queries' = <<"Category.findOne">>
       ELSE /\ categories' = categories \cup {NewCategory(id, name)}
            /\ resp' = [status |-> 201, body |-> <<NewCategory(id, name)>>]
            /\ queries' = <<"Category.findOne", "Category.save">>
    /\ req' = [op |-> "createCategory"]
    /\ locals' = NoLocals
    /\ prevResp' = NoResp
    /\ UNCHANGED <<pending, client>>
    /\ UNCHANGED <<transactions, budgets>>

\* $set: req.body on the stored document
SetFields(c, body) == [f \in DOMAIN c |-> IF f \in DOMAIN body THEN body[f] ELSE c[f]]

\* PUT /api/categories/:id with a valid body, which holds any of the fields
\* name, type, color, icon and isDefault
UpdateCategory(id, body) ==
    /\ LET found == {c \in categories : c._id = id}
       IN  IF found = {}
           THEN /\ categories' = categories
                /\ resp' = [status |-> 404, body |-> <<"Category not found">>]
                /\ queries' = <<"Category.findById">>
           ELSE IF \E c \in found : c.isDefault /\ ({"name", "type"} \cap DOMAIN body # {})
           THEN /\ categories' = categories
                /\ resp' = [status |-> 403,
                            body |-> <<"Cannot modify name or type of default categories">>]
                /\ queries' = <<"Category.findById">>
           ELSE IF "name" \in DOMAIN body /\ ~NameIndexAllows(id, body.name)
           THEN /\ categories' = categories
                /\ resp' = [status |-> 500, body |-> <<"Server error", "E11000 duplicate key">>]
                /\ queries' = <<"Category.findById", "Category.findByIdAndUpdate">>
           ELSE LET updatedCategory == SetFields(CHOOSE c \in found : TRUE, body)
                IN  /\ categories' = (categories \ found) \cup {updatedCategory}
                    /\ resp' = [status |-> 200, body |-> <<updatedCategory>>]
                    /\ queries' = <<"Category.findById", "Category.findByIdAndUpdate">>
    /\ req' = [op |-> "updateCategory", id |-> id, body |-> body]
    /\ locals' = NoLocals
    /\ prevResp' = NoResp
    /\ UNCHANGED <<pending, client>>
    /\ UNCHANGED <<transactions, budgets>>

\* Transaction.countDocuments({ category: id }): the schema has no category
\* path; a build with strictQuery drops the condition and counts every
\* transaction, a build without it sends the condition and counts none
CategoryUseCounts == {0, BagCardinality(transactions)}

\* DELETE /api/categories/:id
DeleteCategory(id) ==
    /\ LET found == {c \in categories : c._id = id}
       IN  IF found = {}
           THEN /\ categories' = categories
                /\ resp' = [status |-> 404, body |-> <<"Category not found">>]
                /\ queries' = <<"Category.findById">>
           ELSE IF \E c \in found : c.isDefault
           THEN /\ categories' = categories
                /\ resp' = [status |-> 403, body |-> <<"Cannot delete default categories">>]
                /\ queries' = <<"Category.findById">>
           ELSE \E transactionCount \in CategoryUseCounts :
                   IF transactionCount > 0
                   THEN /\ categories' = categories
                        /\ resp' = [status |-> 400, body |-> <<"Cannot delete category">>]
                        /\ queries' = <<"Category.findById", "Transaction.countDocuments">>
                   ELSE /\ categories' = categories \ found
                        /\ resp' = [status |-> 200, body |-> <<"Category removed">>]
                        /\ queries' = <<"Category.findById", "Transaction.countDocuments",
                                        "Category.deleteOne">>
    /\ req' = [op |-> "deleteCategory", id |-> id]
    /\ locals' = NoLocals
    /\ prevResp' = NoResp
    /\ UNCHANGED <<pending, client>>
    /\ UNCHANGED <<transactions, budgets>>

(***************************************************************************)
(* Budget documents.                                                       *)
(***************************************************************************)
MkBudget(id, c, a, m, y) == [_id |-> id, categoryId |-> c, amount |-> a, month |-> m, year |-> y]

\* the index has not been built: every write passes
IndexAllows_NotBuilt(b) == TRUE

\* the unique compound index on (categoryId, month, year): no other stored
\* document has the tuple of b
IndexAllows(b) ==
    \A o \in budgets :
        o._id # b._id =>
            ~(o.categoryId = b.categoryId /\ o.month = b.month /\ o.year = b.year)

\* Budget document save (seeding, POST): schema validation and unique index
SaveBudget(c, a, m, y) ==
    /\ a >= 0 /\ m \in 1..12 /\ y \in 2000..2100
    /\ LET id == CHOOSE i \in 1..(Cardinality(budgets) + 1) :
                    /\ \A o \in budgets : o._id # i
                    /\ \A j \in 1..(i - 1) : \E o \in budgets : o._id = j
           b == MkBudget(id, c, a, m, y)
       IN  IF IndexAllows(b)
           THEN /\ budgets' = budgets \cup {b}
                /\ resp' = [status |-> 201, body |-> <<b>>]
           ELSE /\ budgets' = budgets
                /\ resp' = [status |-> 500, body |-> <<"E11000 duplicate key">>]
    /\ req' = [op |-> "saveBudget"]
    /\ locals' = NoLocals
    /\ prevResp' = NoResp
    /\ UNCHANGED <<pending, client>>
    /\ queries' = <<"Budget.save">>
    /\ UNCHANGED <<transactions, categories>>

(***************************************************************************)
(* GET /api/analytics/budget-comparison                                    *)
(***************************************************************************)
\* what populate leaves in the path when no category has the id: null
NullDoc == [_id |-> Null]

\* the fields populate selects with 'name color icon', and the _id
PopulatedFields(c) == [_id |-> c._id, name |-> c.name, color |-> c.color, icon |-> c.icon]

\* populate('categoryId', 'name color icon'): the category document, or null
Populate(b) ==
    IF \E c \in categories : c._id = b.categoryId
    THEN [b EXCEPT !.categoryId =
             PopulatedFields(CHOOSE c \in categories : c._id = b.categoryId)]
    ELSE [b EXCEPT !.categoryId = NullDoc]

\* Budget.find({month, year}), populated
BudgetsOf(month, year) ==
    {Populate(b) : b \in {x \in budgets : x.month = month /\ x.year = year}}

\* $match of the month: from the 1st at 00:00 to the last day at 00:00
InMonthRange(t, month, year) ==
    /\ DateKey(t.date) >= DateKey(MkDate(year, month, 1, 0))
    /\ DateKey(t.date) <= DateKey(MkDate(year, month, DaysInMonth(year, month), 0))

\* $group by categoryId with the sum of the amounts of the expenses
ActualExpenses(month, year) ==
    LET M == {t \in Docs : t.type = "expense" /\ InMonthRange(t, month, year)}
    IN  {[_id |-> c, actual |-> SumOver({t \in M : t.categoryId = c}, transactions)] :
            c \in {t.categoryId : t \in M}}

\* the row of actualExpenses found for a category id: the index of the
\* first e with e._id && id.equals(e._id), 0 when find returns undefined
FindExpense(actuals, id) ==
    LET hits == {i \in DOMAIN actuals : actuals[i]._id # Null /\ actuals[i]._id = id}
    IN  IF hits = {} THEN 0 ELSE CHOOSE i \in hits : \A j \in hits : i <= j

\* the percentage is not capped
Percentage_Uncapped(budgeted, actual) ==
    IF budgeted > 0 THEN Rat(actual * 100, budgeted) ELSE FromInt(0)

\* percentage of the budget used, capped at 100
Percentage(budgeted, actual) ==
    RatMin(IF budgeted > 0 THEN Rat(actual * 100, budgeted) ELSE FromInt(0), FromInt(100))

Status(difference) == IF difference >= 0 THEN "within" ELSE "exceeded"

\* the comparison falls back to the budget amount when nothing was spent
ActualAmount_NoDefault(b, actuals) ==
    LET expense == FindExpense(actuals, b.categoryId._id)
    IN  IF expense # 0 THEN actuals[expense].actual ELSE b.amount

\* "Find actual expense for this budget's category", 0 when none
ActualAmount(b, actuals) ==
    LET expense == FindExpense(actuals, b.categoryId._id)
    IN  IF expense # 0 THEN actuals[expense].actual ELSE 0

\* one comparison row of budgets.map
BudgetRow(b, actuals) ==
    LET actualAmount == ActualAmount(b, actuals)
        difference == b.amount - actualAmount
    IN  [id |-> b._id,
         category |-> b.categoryId,
         budgeted |-> b.amount,
         actual |-> actualAmount,
         difference |-> difference,
         percentage |-> Percentage(b.amount, actualAmount),
         status |-> Status(difference)]

\* rows of "categories with expenses but no budget"
UnbudgetedRow(category, expense) ==
    [id |-> <<"unbudgeted", category._id>>,
     category |-> PopulatedFields(category),
     budgeted |-> 0,
     actual |-> expense.actual,
     difference |-> 0 - expense.actual,
     percentage |-> FromInt(100),
     status |-> "unbudgeted"]

\* the filter keeps every expense total that has a category id
WithoutBudget_AllActuals(bs, actuals) ==
    SelectSeq(actuals, LAMBDA e : e._id # Null)

\* actualExpenses.filter: a category id that no fetched budget carries
WithoutBudget(bs, actuals) ==
    SelectSeq(actuals, LAMBDA e :
        e._id # Null /\ ~\E i \in DOMAIN bs : bs[i].categoryId._id = e._id)

RECURSIVE UnbudgetedRows(_)
\* forEach over categoriesWithoutBudget: a row when the category is found
UnbudgetedRows(without) ==
    IF without = <<>> THEN <<>>
    ELSE LET e == Head(without)
             found == {c \in categories : c._id = e._id}
         IN  (IF found = {} THEN <<>>
              ELSE <<UnbudgetedRow(CHOOSE c \in found : TRUE, e)>>)
             \o UnbudgetedRows(Tail(without))

\* rows are put in ascending order
InsertByPercentage_Ascending(sorted, r) ==
    LET after == {i \in DOMAIN sorted : RatLess(r.percentage, sorted[i].percentage)}
        k == IF after = {} THEN Len(sorted) + 1
             ELSE CHOOSE i \in after : \A j \in after : i <= j
    IN  SubSeq(sorted, 1, k - 1) \o <<r>> \o SubSeq(sorted, k, Len(sorted))

\* a row goes before the first row with a smaller percentage
InsertByPercentage(sorted, r) ==
    LET after == {i \in DOMAIN sorted : RatLess(sorted[i].percentage, r.percentage)}
        k == IF after = {} THEN Len(sorted) + 1
             ELSE CHOOSE i \in after : \A j \in after : i <= j
    IN  SubSeq(sorted, 1, k - 1) \o <<r>> \o SubSeq(sorted, k, Len(sorted))

RECURSIVE SortByPercentage(_)
\* comparison.sort((a, b) => b.percentage - a.percentage), a stable sort
SortByPercentage(rows) ==
    IF rows = <<>> THEN <<>>
    ELSE InsertByPercentage(SortByPercentage(SubSeq(rows, 1, Len(rows) - 1)), rows[Len(rows)])

\* budgets and actualExpenses are always fetched; the categories are
\* fetched only when some expense total has no budget
BudgetComparisonQueries == <<"budgets", "actualExpenses", "categories">>

BudgetComparison(month, year) ==
    /\ \/ \E k \in 1..2 : Rejected(BudgetComparisonQueries, k)
       \/ \E bs \in Perms(BudgetsOf(month, year)) :
          \E actuals \in Perms(ActualExpenses(month, year)) :
             IF \E i \in DOMAIN bs : bs[i].categoryId = NullDoc
             THEN \* budget.categoryId._id of an unresolved category throws
                  /\ queries' = SubSeq(BudgetComparisonQueries, 1, 2)
                  /\ locals' = [budgets |-> bs, actualExpenses |-> actuals]
                  /\ resp' = [status |-> 500, body |-> <<"Server error", TypeErrorMessage>>]
             ELSE LET comparison == [i \in DOMAIN bs |-> BudgetRow(bs[i], actuals)]
                      without == WithoutBudget(bs, actuals)
                      unbudgeted == UnbudgetedRows(without)
                  IN  IF without = <<>>
                      THEN /\ queries' = SubSeq(BudgetComparisonQueries, 1, 2)
                           /\ locals' = [budgets |-> bs, actualExpenses |-> actuals,
                                         comparison |-> comparison]
                           /\ resp' = [status |-> 200, body |-> SortByPercentage(comparison)]
                      ELSE \/ Rejected(BudgetComparisonQueries, 3)
                           \/ /\ queries' = BudgetComparisonQueries
                              /\ locals' = [budgets |-> bs, actualExpenses |-> actuals,
                                            comparison |-> comparison \o unbudgeted]
                              /\ resp' = [status |-> 200,
                                          body |-> SortByPercentage(comparison \o unbudgeted)]
    /\ req' = [op |-> "budgetComparison", month |-> month, year |-> year]
    /\ prevResp' = NoResp
    /\ UNCHANGED <<pending, client>>
    /\ ReadOnly

(***************************************************************************)
(* GET /api/analytics/dashboard-summary                                    *)
(***************************************************************************)
\* new Date(y, m, 1): the first day of the month of d, at 00:00
MonthStart(d) == MkDate(d.year, d.month, 1, 0)

\* new Date(y, m + 1, 0): the last day of the month of d, at 00:00
MonthEnd(d) == MkDate(d.year, d.month, DaysInMonth(d.year, d.month), 0)

\* new Date(y, m - 1, 1): the first day of the month before, at 00:00
PrevMonthStart(d) ==
    IF d.month = 1 THEN MkDate(d.year - 1, 12, 1, 0)
    ELSE MkDate(d.year, d.month - 1, 1, 0)

\* date: { $gte: start, $lte: end }
InRange(t, start, end) ==
    DateKey(t.date) >= DateKey(start) /\ DateKey(t.date) <= DateKey(end)

\* $group by '$type' over a range, then find(s => s._id === type)?.total || 0
TypeTotal(start, end, type) ==
    SumOver({t \in Docs : InRange(t, start, end) /\ t.type = type}, transactions)

\* the zero test is made on the current value
PercentChange_TestsCurrent(current, previous) ==
    IF current = 0 THEN FromInt(100)
    ELSE IF previous = 0 THEN FromInt(0)
    ELSE Rat((current - previous) * 100, previous)

\* previous === 0 ? 100 : ((current - previous) / previous) * 100
PercentChange(current, previous) ==
    IF previous = 0 THEN FromInt(100)
    ELSE Rat((current - previous) * 100, previous)

\* top categories: $match, $lookup on categoryId, $unwind, $group, $project
TopCategoryGroups(start, end) ==
    LET M == {t \in Docs : t.type = "expense" /\ InRange(t, start, end)}
    IN  {[id |-> IF key = Null THEN "uncategorized" ELSE key,
          name |-> IF CategoryInfo(key) = {} THEN Uncategorized
                   ELSE (CHOOSE c \in CategoryInfo(key) : TRUE).name,
          color |-> IF CategoryInfo(key) = {} THEN DefaultColor
                    ELSE (CHOOSE c \in CategoryInfo(key) : TRUE).color,
          amount |-> SumOver({t \in M : t.categoryId = key}, transactions)] :
            key \in {t.categoryId : t \in M}}

\* $sort: { total: -1 }: rows of equal total come in any order
SortedByAmount(rows) ==
    {f \in Perms(rows) : \A i, j \in DOMAIN f : i < j => f[i].amount >= f[j].amount}

\* $limit / limit() / slice(0, n)
Limit(seq, n) == SubSeq(seq, 1, IF Len(seq) < n THEN Len(seq) ELSE n)

\* populate('categoryId', 'name color icon') of a transaction
PopulateTx(t) ==
    IF CategoryInfo(t.categoryId) = {} THEN [t EXCEPT !.categoryId = NullDoc]
    ELSE [t EXCEPT !.categoryId =
             PopulatedFields(CHOOSE c \in CategoryInfo(t.categoryId) : TRUE)]

\* the sort is ascending: the oldest documents come first
SortedByDate_OldestFirst ==
    LET n == BagCardinality(transactions)
    IN  {f \in [1..n -> BagToSet(transactions)] :
            /\ \A t \in BagToSet(transactions) :
                  Cardinality({i \in 1..n : f[i] = t}) = CopiesIn(t, transactions)
            /\ \A i, j \in 1..n : i < j => DateKey(f[i].date) <= DateKey(f[j].date)}

\* Transaction.find().sort({ date: -1 }): every document once per copy,
\* latest first, documents of equal date in any order
SortedByDate ==
    LET n == BagCardinality(transactions)
    IN  {f \in [1..n -> BagToSet(transactions)] :
            /\ \A t \in BagToSet(transactions) :
                  Cardinality({i \in 1..n : f[i] = t}) = CopiesIn(t, transactions)
            /\ \A i, j \in 1..n : i < j => DateKey(f[i].date) >= DateKey(f[j].date)}

DashboardSummaryQueries ==
    <<"currentMonthSummary", "prevMonthSummary", "topCategories", "recentTransactions">>

\* the try block when all four queries resolve
DashboardResult(now) ==
    /\ LET currentMonthStart == MonthStart(now)
           currentMonthEnd == MonthEnd(now)
           prevMonthStart == PrevMonthStart(now)
           prevMonthEnd == MonthEnd(PrevMonthStart(now))
           currentMonthIncome == TypeTotal(currentMonthStart, currentMonthEnd, "income")
           currentMonthExpense == TypeTotal(currentMonthStart, currentMonthEnd, "expense")
           prevMonthIncome == TypeTotal(prevMonthStart, prevMonthEnd, "income")
           prevMonthExpense == TypeTotal(prevMonthStart, prevMonthEnd, "expense")
           incomeChange == PercentChange(currentMonthIncome, prevMonthIncome)
           expenseChange == PercentChange(currentMonthExpense, prevMonthExpense)
       IN  \E top \in SortedByAmount(TopCategoryGroups(currentMonthStart, currentMonthEnd)) :
           \E recent \in SortedByDate :
              /\ queries' = DashboardSummaryQueries
              /\ locals' = [incomeChange |-> incomeChange, expenseChange |-> expenseChange]
              /\ resp' = [status |-> 200,
                          body |-> [currentMonth |->
                                       [income |-> currentMonthIncome,
                                        expense |-> currentMonthExpense,
                                        balance |-> currentMonthIncome - currentMonthExpense],
                                    previousMonth |->
                                       [income |-> prevMonthIncome,
                                        expense |-> prevMonthExpense,
                                        balance |-> prevMonthIncome - prevMonthExpense],
                                    changes |->
                                       [income |-> ToFixed2(incomeChange),
                                        expense |-> ToFixed2(expenseChange)],
                                    topCategories |-> Limit(top, 3),
                                    recentTransactions |->
                                       [i \in DOMAIN Limit(recent, 5) |-> PopulateTx(recent[i])]]]

DashboardSummary(now) ==
    /\ \/ \E k \in DOMAIN DashboardSummaryQueries : Rejected(DashboardSummaryQueries, k)
       \/ DashboardResult(now)
    /\ req' = [op |-> "dashboardSummary", now |-> now]
    /\ prevResp' = NoResp
    /\ UNCHANGED <<pending, client>>
    /\ ReadOnly

(***************************************************************************)
(* GET /api/analytics/insights                                             *)
(***************************************************************************)
\* $group with _id: null over the expenses of a range: <<>> when there are
\* none, else one row with total and count
Spending(start, end) ==
    LET M == {t \in Docs : t.type = "expense" /\ InRange(t, start, end)}
    IN  IF M = {} THEN <<>>
        ELSE <<[total |-> SumOver(M, transactions), count |-> CountOver(M, transactions)]>>

\* $group by the day of the date ($dateToString '%Y-%m-%d')
DailySpending(start, end) ==
    LET M == {t \in Docs : t.type = "expense" /\ InRange(t, start, end)}
        DayOf(t) == <<t.date.year, t.date.month, t.date.day>>
    IN  {[_id |-> k,
          total |-> SumOver({t \in M : DayOf(t) = k}, transactions),
          count |-> CountOver({t \in M : DayOf(t) = k}, transactions)] :
            k \in {DayOf(t) : t \in M}}

\* $sort: { total: -1 }: days of equal total come in any order
SortedByTotal(rows) ==
    {f \in Perms(rows) : \A i, j \in DOMAIN f : i < j => f[i].total >= f[j].total}

\* $lookup on 'category', $unwind, $group by '$category'
CategorySpending(start, end) ==
    LET M == {t \in Docs : t.type = "expense" /\ InRange(t, start, end)}
    IN  {[_id |-> key,
          categoryName |-> IF CategoryInfo(key) = {} THEN Uncategorized
                           ELSE (CHOOSE c \in CategoryInfo(key) : TRUE).name,
          total |-> SumOver({t \in M : CategoryPath(t) = key}, transactions)] :
            key \in {CategoryPath(t) : t \in M}}

\* the two ids are equal ObjectIds, or both are null
SameKey(a, b) == a._id = b._id

\* lastMonthCategorySpending.find: the index of the first row with the key
\* of current, 0 when find returns undefined
FindLast(lasts, current) ==
    LET hits == {i \in DOMAIN lasts : SameKey(current, lasts[i])}
    IN  IF hits = {} THEN 0 ELSE CHOOSE i \in hits : \A j \in hits : i <= j

RECURSIVE CurrentChanges(_, _)
\* currentMonthCategorySpending.forEach
CurrentChanges(currents, lasts) ==
    IF currents = <<>> THEN <<>>
    ELSE LET current == Head(currents)
             lastMonth == FindLast(lasts, current)
             lastMonthTotal == IF lastMonth # 0 THEN lasts[lastMonth].total ELSE 0
             change == PercentChange(current.total, lastMonthTotal)
         IN  (IF current.total > 0
              THEN <<[categoryId |-> current._id,
                      name |-> current.categoryName,
                      currentAmount |-> current.total,
                      previousAmount |-> lastMonthTotal,
                      change |-> change]>>
              ELSE <<>>)
             \o CurrentChanges(Tail(currents), lasts)

RECURSIVE DroppedChanges(_, _)
\* lastMonthCategorySpending.forEach: spending last month and none this month
DroppedChanges(lasts, currents) ==
    IF lasts = <<>> THEN <<>>
    ELSE LET last == Head(lasts)
             hasCurrent == \E i \in DOMAIN currents : SameKey(currents[i], last)
         IN  (IF ~hasCurrent /\ last.total > 0
              THEN <<[categoryId |-> last._id,
                      name |-> last.categoryName,
                      currentAmount |-> 0,
                      previousAmount |-> last.total,
                      change |-> FromInt(0 - 100)]>>
              ELSE <<>>)
             \o DroppedChanges(Tail(lasts), currents)

\* the comparison is made on the signed changes
InsertByAbsChange_Signed(sorted, c) ==
    LET after == {i \in DOMAIN sorted : RatLess(sorted[i].change, c.change)}
        k == IF after = {} THEN Len(sorted) + 1
             ELSE CHOOSE i \in after : \A j \in after : i <= j
    IN  SubSeq(sorted, 1, k - 1) \o <<c>> \o SubSeq(sorted, k, Len(sorted))

\* a change goes before the first one of smaller absolute value
InsertByAbsChange(sorted, c) ==
    LET after == {i \in DOMAIN sorted : RatLess(RatAbs(sorted[i].change), RatAbs(c.change))}
        k == IF after = {} THEN Len(sorted) + 1
             ELSE CHOOSE i \in after : \A j \in after : i <= j
    IN  SubSeq(sorted, 1, k - 1) \o <<c>> \o SubSeq(sorted, k, Len(sorted))

RECURSIVE SortByAbsChange(_)
\* categoryChanges.sort((a, b) => Math.abs(b.change) - Math.abs(a.change))
SortByAbsChange(cs) ==
    IF cs = <<>> THEN <<>>
    ELSE InsertByAbsChange(SortByAbsChange(SubSeq(cs, 1, Len(cs) - 1)), cs[Len(cs)])

\* categoryChanges.slice(0, 3).map(...): the entries the response lists
SignificantChanges(categoryChanges) ==
    LET top == Limit(categoryChanges, 3)
    IN  [i \in DOMAIN top |->
            [category |-> top[i].name,
             currentAmount |-> top[i].currentAmount,
             previousAmount |-> top[i].previousAmount,
             percentageChange |-> ToFixed2(top[i].change),
             increasing |-> top[i].change.n > 0]]

InsightsQueries ==
    <<"currentMonthSpending", "lastMonthSpending", "dailySpending",
      "currentMonthCategorySpending", "lastMonthCategorySpending">>

\* the try block when all five queries resolve
InsightsResult(now) ==
    LET thisMonthStart == MonthStart(now)
        lastMonthStart == PrevMonthStart(now)
        lastMonthEnd == MonthEnd(PrevMonthStart(now))
        currentMonthSpending == Spending(thisMonthStart, now)
        lastMonthSpending == Spending(lastMonthStart, lastMonthEnd)
        dayOfMonth == now.day
        daysInMonth == DaysInMonth(now.year, now.month)
        currentTotal == IF currentMonthSpending = <<>> THEN 0
                        ELSE currentMonthSpending[1].total
        dailyAverage == Rat(currentTotal, dayOfMonth)
        projectedTotal == Rat(currentTotal * daysInMonth, dayOfMonth)
        lastMonthTotal == IF lastMonthSpending = <<>> THEN 0
                          ELSE lastMonthSpending[1].total
        lastMonthDailyAverage == Rat(lastMonthTotal, lastMonthEnd.day)
    IN  \E daily \in SortedByTotal(DailySpending(thisMonthStart, now)) :
        \E currents \in Perms(CategorySpending(thisMonthStart, now)) :
        \E lasts \in Perms(CategorySpending(lastMonthStart, lastMonthEnd)) :
           LET dailySpending == Limit(daily, 1)
               categoryChanges ==
                   SortByAbsChange(CurrentChanges(currents, lasts)
                                       \o DroppedChanges(lasts, currents))
           IN  /\ queries' = InsightsQueries
               /\ locals' = [categoryChanges |-> categoryChanges,
                             dayOfMonth |-> dayOfMonth,
                             daysInMonth |-> daysInMonth,
                             dailyAverage |-> dailyAverage,
                             projectedTotal |-> projectedTotal]
               /\ resp' =
                    [status |-> 200,
                     body |->
                       [currentMonthToDate |->
                           [total |-> currentTotal,
                            dailyAverage |-> ToFixed2(dailyAverage),
                            transactionCount |->
                                IF currentMonthSpending = <<>> THEN 0
                                ELSE currentMonthSpending[1].count],
                        lastMonth |->
                           [total |-> lastMonthTotal,
                            dailyAverage |-> ToFixed2(lastMonthDailyAverage),
                            transactionCount |->
                                IF lastMonthSpending = <<>> THEN 0
                                ELSE lastMonthSpending[1].count],
                        projectedSpending |->
                           [total |-> ToFixed2(projectedTotal),
                            percentageChange |->
                                IF lastMonthTotal > 0
                                THEN ToFixed2(RatPercentOf(projectedTotal,
                                                           FromInt(lastMonthTotal)))
                                ELSE 0],
                        highestSpendingDay |->
                           [i \in DOMAIN dailySpending |->
                               [date |-> dailySpending[i]._id,
                                amount |-> dailySpending[i].total,
                                transactions |-> dailySpending[i].count]],
                        significantChanges |-> SignificantChanges(categoryChanges)]]

\* the ranking step of the handler on its own: the sort of categoryChanges
\* and the slice and map of the response, applied to the entries in locals
RankCategoryChanges ==
    /\ req = NoReq
    /\ "entries" \in DOMAIN locals
    /\ LET categoryChanges == SortByAbsChange(locals.entries)
       IN  /\ locals' = [entries |-> locals.entries, categoryChanges |-> categoryChanges]
           /\ resp' = [status |-> 200,
                       body |-> [significantChanges |-> SignificantChanges(categoryChanges)]]
    /\ req' = [op |-> "significantChanges"]
    /\ prevResp' = NoResp
    /\ UNCHANGED <<pending, client>>
    /\ queries' = <<>>
    /\ ReadOnly

Insights(now) ==
    /\ \/ \E k \in DOMAIN InsightsQueries : Rejected(InsightsQueries, k)
       \/ InsightsResult(now)
    /\ req' = [op |-> "insights", now |-> now]
    /\ prevResp' = NoResp
    /\ UNCHANGED <<pending, client>>
    /\ ReadOnly

(***************************************************************************)
(* The seeded store and the specifications.                                *)
(***************************************************************************)
(***************************************************************************)
(* Requests in flight and the client's stores at start.                    *)
(***************************************************************************)
\* budget requests the server handles at once
MaxRequests == 2
\* calls in flight per client store
MaxInFlight == 2
\* items a client store holds
MaxItems == 2

\* the budget requests the server can have between two awaits
Slots == 1..MaxRequests

\* no handler is running in the slot
Idle == [pc |-> "idle"]

\* the two context providers of the client
Stores == {"transaction", "category"}

\* the kinds of call a provider offers besides the load at mount
CallKinds == {"add", "update", "delete"}

\* initialState of a provider, with the provider not mounted yet and no
\* call started
initialState ==
    [state |-> [items |-> <<>>, loading |-> FALSE, error |-> Null],
     mounted |-> FALSE,
     calls |-> EmptyBag]

CatFood ==
    [_id |-> "c1", name |-> "Food & Dining", color |-> "#FF6B6B", icon |-> "utensils",
     type |-> "expense", isDefault |-> TRUE]
CatHouse ==
    [_id |-> "c2", name |-> "Housing", color |-> "#45B7D1", icon |-> "home",
     type |-> "expense", isDefault |-> TRUE]
CatTransport ==
    [_id |-> "c3", name |-> "Transportation", color |-> "#4ECDC4", icon |-> "car",
     type |-> "expense", isDefault |-> TRUE]

Init ==
    /\ transactions = EmptyBag
    /\ budgets = {}
    /\ categories = {CatFood, CatHouse, CatTransport}
    /\ req = NoReq
    /\ locals = NoLocals
    /\ resp = NoResp
    /\ prevResp = NoResp
    /\ queries = <<>>
    /\ pending = [s \in Slots |-> Idle]
    /\ client = [st \in Stores |-> initialState]

Years == {2024, 2025}

\* the transactions posted in the monthly-summary runs
MonthlyTx ==
    {MkTx(k[1], k[2], Null, d) :
        k \in {<<-50, "expense">>, <<-30, "expense">>, <<2000, "income">>},
        d \in {MkDate(2025, 3, 5, 0), MkDate(2025, 1, 1, 0),
               MkDate(2025, 12, 31, 12), MkDate(2024, 12, 31, 0)}}

NextMonthly ==
    \/ \E t \in MonthlyTx : BagCardinality(transactions) < MaxTx /\ PostTransaction(t)
    \/ \E t \in BagToSet(transactions) : DeleteTransaction(t)
    \/ \E y \in Years : MonthlySummary(y)

SpecMonthly == Init /\ [][NextMonthly]_vars

MaxBudgets == 2
MaxBudgetTx == 2

\* category ids in use: the seeded categories and one id without a category
CategoryIds == {"c1", "c2", "c3", "c9"}

\* the transactions posted in the budget-comparison runs
BudgetTx ==
    {MkTx(450, "expense", c, MkDate(2025, 3, 5, 0)) : c \in CategoryIds \cup {Null}}
    \cup {MkTx(-450, "expense", "c1", MkDate(2025, 3, 5, 0)),
          MkTx(450, "income", "c1", MkDate(2025, 3, 5, 0)),
          MkTx(450, "expense", "c1", MkDate(2025, 3, 31, 12))}

\* the category ids budgets are saved for
BudgetCategoryIds == {"c1", "c2", "c9"}

NextBudget ==
    \/ \E t \in BudgetTx : BagCardinality(transactions) < MaxBudgetTx /\ PostTransaction(t)
    \/ \E c \in BudgetCategoryIds, a \in {0, 400} :
          Cardinality(budgets) < MaxBudgets /\ SaveBudget(c, a, 3, 2025)
    \/ \E m \in {3, 4} : BudgetComparison(m, 2025)

SpecBudget == Init /\ [][NextBudget]_vars

\* the transactions posted in the category-summary runs
CategoryTx ==
    {MkTx(k[1], k[2], c, d) :
        k \in {<<-50, "expense">>, <<50, "expense">>, <<0, "expense">>, <<2000, "income">>},
        c \in {"c1", "c2"},
        d \in {MkDate(2025, 3, 5, 0), MkDate(2025, 6, 5, 0)}}

\* the date ranges asked for
Ranges ==
    {<<MkDate(2025, 3, 1, 0), MkDate(2025, 3, 31, 0)>>,
     <<MkDate(2025, 1, 1, 0), MkDate(2025, 12, 31, 0)>>}

NextCategory ==
    \/ \E t \in CategoryTx : BagCardinality(transactions) < MaxTx /\ PostTransaction(t)
    \/ \E t \in BagToSet(transactions) : DeleteTransaction(t)
    \/ \E r \in Ranges, ty \in TxTypes : CategorySummary(r[1], r[2], ty)

SpecCategory == Init /\ [][NextCategory]_vars

\* the instants the dashboard and the insights are asked at
Nows == {MkDate(2025, 3, 15, 12), MkDate(2025, 1, 15, 12)}

\* the transactions posted in the dashboard and insights runs
ChangeTx ==
    {MkTx(k[1], k[2], c, d) :
        k \in {<<-50, "expense">>, <<50, "expense">>, <<100, "expense">>, <<2000, "income">>},
        c \in {"c1"},
        d \in {MkDate(2025, 3, 5, 0), MkDate(2025, 2, 10, 0), MkDate(2024, 12, 10, 0)}}

NextChange ==
    \/ \E t \in ChangeTx : BagCardinality(transactions) < MaxTx /\ PostTransaction(t)
    \/ \E t \in BagToSet(transactions) : DeleteTransaction(t)
    \/ \E now \in Nows : DashboardSummary(now)
    \/ \E now \in Nows : Insights(now)

SpecChange == Init /\ [][NextChange]_vars

\* the instants the insights are asked at: mid-month, the first instant of
\* a month, and the last day of months of 31, 28 and 29 days
InsightNows ==
    {MkDate(2025, 3, 15, 12), MkDate(2025, 3, 1, 0), MkDate(2025, 3, 31, 12),
     MkDate(2025, 2, 28, 12), MkDate(2024, 2, 29, 12)}

\* the transactions posted in the insights runs
InsightTx ==
    {MkTx(a, "expense", "c1", d) :
        a \in {-50, -100, 70},
        d \in {MkDate(2025, 3, 5, 0), MkDate(2025, 3, 10, 0), MkDate(2025, 2, 10, 0)}}

NextInsights ==
    \/ \E t \in InsightTx : BagCardinality(transactions) < MaxTx /\ PostTransaction(t)
    \/ \E t \in BagToSet(transactions) : DeleteTransaction(t)
    \/ \E now \in InsightNows : Insights(now)

SpecInsights == Init /\ [][NextInsights]_vars

MaxRecentTx == 6

\* the transactions posted in the dashboard runs: expenses of three
\* categories, two of them on the same day
DashboardTx ==
    {MkTx(-100, "expense", "c1", MkDate(2025, 3, 5, 0)),
     MkTx(-50, "expense", "c2", MkDate(2025, 3, 10, 0)),
     MkTx(-20, "expense", "c3", MkDate(2025, 3, 10, 0))}

NextDashboard ==
    \/ \E t \in DashboardTx : BagCardinality(transactions) < MaxRecentTx /\ PostTransaction(t)
    \/ \E t \in BagToSet(transactions) : DeleteTransaction(t)
    \/ DashboardSummary(MkDate(2025, 3, 15, 12))

SpecDashboard == Init /\ [][NextDashboard]_vars

MaxEntries == 4

\* names of the categories of the entries, by position
EntryNames == <<"k1", "k2", "k3", "k4", "k5", "k6">>

\* (currentAmount, previousAmount) of the delta entries that are ranked
EntryAmounts == {<<100, 0>>, <<150, 100>>, <<50, 100>>, <<0, 100>>, <<350, 100>>, <<100, 300>>}

\* the delta entry the handler builds for a category: the one of a category
\* with current spending, or the -100 entry of one without
DeltaEntry(name, amounts) ==
    [categoryId |-> name,
     name |-> name,
     currentAmount |-> amounts[1],
     previousAmount |-> amounts[2],
     change |-> IF amounts[1] = 0 THEN FromInt(0 - 100)
                ELSE PercentChange(amounts[1], amounts[2])]

\* the lists of delta entries, in the order the handler pushed them
EntryLists ==
    UNION {{[i \in 1..n |-> DeltaEntry(EntryNames[i], f[i])] : f \in [1..n -> EntryAmounts]} :
              n \in 0..MaxEntries}

InitRanking ==
    /\ transactions = EmptyBag
    /\ budgets = {}
    /\ categories = {CatFood, CatHouse, CatTransport}
    /\ req = NoReq
    /\ locals \in {[entries |-> es] : es \in EntryLists}
    /\ resp = NoResp
    /\ prevResp = NoResp
    /\ queries = <<>>
    /\ pending = [s \in Slots |-> Idle]
    /\ client = [st \in Stores |-> initialState]

NextRanking == RankCategoryChanges

SpecRanking == InitRanking /\ [][NextRanking]_vars

MaxStoreTx == 2

\* the transactions posted in the runs over all the analytics routes
StoreTx ==
    {MkTx(-50, "expense", "c4", MkDate(2025, 3, 5, 0)),
     MkTx(-50, "expense", "c1", MkDate(2025, 3, 5, 0)),
     MkTx(2000, "income", Null, MkDate(2025, 3, 5, 0))}

\* the category a client adds, and may delete again
CustomCategoryId == "c4"

NextStore ==
    \/ \E t \in StoreTx : BagCardinality(transactions) < MaxStoreTx /\ PostTransaction(t)
    \/ \E t \in BagToSet(transactions) : DeleteTransaction(t)
    \/ CreateCategory(CustomCategoryId, "Pets")
    \/ \E id \in {"c1", CustomCategoryId} : DeleteCategory(id)
    \/ \E c \in {"c1", CustomCategoryId} :
          Cardinality(budgets) < MaxBudgets /\ SaveBudget(c, 400, 3, 2025)
    \/ MonthlySummary(2025)
    \/ CategorySummary(MkDate(2025, 3, 1, 0), MkDate(2025, 3, 31, 0), "expense")
    \/ MonthlyExpenses(2025)
    \/ DashboardSummary(MkDate(2025, 3, 15, 12))
    \/ BudgetComparison(3, 2025)
    \/ Insights(MkDate(2025, 3, 15, 12))

SpecStore == Init /\ [][NextStore]_vars

(***************************************************************************)
(* Properties of monthlySummary.                                           *)
(***************************************************************************)
IsMonthly == req.op = "monthlySummary" /\ resp.status = 200

\* the amounts an entry reports under one type
AmountsOf(entry, ty) ==
    {entry.data[i].amount : i \in {j \in DOMAIN entry.data : entry.data[j].type = ty}}

\* how many items of an entry carry one type
CountOf(entry, ty) == Cardinality({j \in DOMAIN entry.data : entry.data[j].type = ty})

\* stored transactions dated in calendar month m of year y
TxInMonth(y, m) == {t \in BagToSet(transactions) : t.date.year = y /\ t.date.month = m}

\* C1: monthlySummary(Y) has exactly 12 entries, months 1..12 in that order,
\* and a month of Y without transactions reports expense 0 and income 0.
C1_TwelveMonthsZeroFilled ==
    IsMonthly =>
        /\ DOMAIN resp.body = 1..12
        /\ \A m \in 1..12 :
              /\ resp.body[m].month = m
              /\ TxInMonth(req.year, m) = {} =>
                    /\ AmountsOf(resp.body[m], "expense") = {0}
                    /\ AmountsOf(resp.body[m], "income") = {0}

\* a summary of a year that has a month with transactions and months without
C1_Witness ==
    /\ IsMonthly
    /\ TxInMonth(req.year, 3) # {}
    /\ TxInMonth(req.year, 12) # {}
    /\ TxInMonth(req.year, 2) = {}

\* the documents of month m that the year's query reads
ReadInMonth(y, m) == {t \in TxInMonth(y, m) : InYearRange(t, y)}

\* amount spent: magnitudes of the negative-amount expense transactions
SpentIn(y, m) ==
    0 - SumOver({t \in ReadInMonth(y, m) : t.type = "expense" /\ t.amount < 0}, transactions)

IncomeIn(y, m) == SumOver({t \in ReadInMonth(y, m) : t.type = "income"}, transactions)

\* C2: the expense of month m is the amount spent in it (a magnitude) and the
\* income is the sum of its income amounts; -50, -30 and 2000 in March give
\* {month 3, expense 80, income 2000}.
C2_ExpenseIsAmountSpent ==
    IsMonthly =>
        \A m \in 1..12 :
            /\ AmountsOf(resp.body[m], "expense") = {SpentIn(req.year, m)}
            /\ AmountsOf(resp.body[m], "income") = {IncomeIn(req.year, m)}

\* C3: every entry carries exactly one expense value and exactly one income
\* value, also when the month has transactions of one type only.
C3_BothTypesPresent ==
    IsMonthly =>
        \A m \in 1..12 :
            /\ CountOf(resp.body[m], "expense") = 1
            /\ CountOf(resp.body[m], "income") = 1

\* a month that has expenses and no income, and a month with income only
C3_Witness ==
    /\ IsMonthly
    /\ \E m \in 1..12 :
          /\ \E t \in ReadInMonth(req.year, m) : t.type = "expense"
          /\ \A t \in ReadInMonth(req.year, m) : t.type = "expense"
    /\ \E m \in 1..12 :
          /\ \E t \in ReadInMonth(req.year, m) : t.type = "income"
          /\ \A t \in ReadInMonth(req.year, m) : t.type = "income"

\* C10: a second monthlySummary(Y) over the unchanged transaction set returns
\* the output of the first, item order inside the entries included.
C10_SameOutputTwice ==
    (req.op = "monthlySummary" /\ prevResp.status = 200 /\ resp.status = 200) =>
        resp = prevResp

(***************************************************************************)
(* Properties of the period-over-period changes.                           *)
(***************************************************************************)
\* r is the policy's value for (current, previous): 100 on a zero baseline,
\* else ((current - previous) / previous) * 100 with its sign
IsChangeOf(r, current, previous) ==
    /\ r.d > 0
    /\ previous = 0 => r = FromInt(100)
    /\ previous # 0 => r.n * previous = (current - previous) * 100 * r.d

\* C4: the dashboard's income and expense changes and every per-category
\* change of the insights are 100 when the previous value is 0, and
\* ((current - previous) / previous) * 100 otherwise.
C4_ZeroBaselinePolicy ==
    /\ (req.op = "dashboardSummary" /\ resp.status = 200) =>
          /\ IsChangeOf(locals.incomeChange,
                        resp.body.currentMonth.income, resp.body.previousMonth.income)
          /\ IsChangeOf(locals.expenseChange,
                        resp.body.currentMonth.expense, resp.body.previousMonth.expense)
    /\ (req.op = "insights" /\ resp.status = 200) =>
          \A i \in DOMAIN locals.categoryChanges :
              IsChangeOf(locals.categoryChanges[i].change,
                         locals.categoryChanges[i].currentAmount,
                         locals.categoryChanges[i].previousAmount)

\* a dashboard with a zero baseline next to a current value of 0 against a
\* nonzero baseline (change -100)
C4_Witness ==
    /\ req.op = "dashboardSummary" /\ resp.status = 200
    /\ resp.body.previousMonth.income = 0
    /\ resp.body.currentMonth.income # 0
    /\ resp.body.currentMonth.expense = 0
    /\ resp.body.previousMonth.expense # 0
    /\ locals.expenseChange = FromInt(0 - 100)

(***************************************************************************)
(* Properties of budgetComparison.                                         *)
(***************************************************************************)
IsComparison == req.op = "budgetComparison" /\ resp.status = 200

Rows == {resp.body[i] : i \in DOMAIN resp.body}

\* the rows built from budgets
BudgetRowsOut == {r \in Rows : r.status # "unbudgeted"}

\* the stored budgets of the requested month and year
RequestedBudgets == {b \in budgets : b.month = req.month /\ b.year = req.year}

\* what the month's expense transactions of category key c add up to
ActualTotal(c) ==
    SumOver({t \in BagToSet(transactions) :
                /\ t.type = "expense"
                /\ t.categoryId = c
                /\ InMonthRange(t, req.month, req.year)}, transactions)

\* the category keys that have an expense in the requested month
ActualKeys ==
    {t.categoryId : t \in {x \in BagToSet(transactions) :
                              x.type = "expense" /\ InMonthRange(x, req.month, req.year)}}

C6_PercentageCapped ==
    IsComparison =>
        \A r \in BudgetRowsOut :
            /\ r.budgeted = 0 => r.percentage = FromInt(0)
            /\ (r.budgeted > 0 /\ r.actual <= r.budgeted) =>
                    r.percentage.n * r.budgeted = r.actual * 100 * r.percentage.d
            /\ (r.budgeted > 0 /\ r.actual > r.budgeted) =>
                    /\ r.percentage = FromInt(100)
                    /\ r.difference = r.budgeted - r.actual
                    /\ r.status = "exceeded"

\* an overspent budget whose percentage is capped, and a budget of 0
C6_Witness ==
    /\ IsComparison
    /\ \E r \in BudgetRowsOut : r.budgeted > 0 /\ r.actual > r.budgeted
    /\ \E r \in BudgetRowsOut : r.budgeted = 0 /\ r.actual # 0

\* the id a synthesized row reports for a category key
KeyId(c) == IF c = Null THEN "uncategorized" ELSE c

\* C7: every category key with an actual total and no budget of the month,
\* the uncategorized key included, has exactly one synthesized row: budgeted
\* 0, actual the total, difference -actual, percentageUsed 100, "unbudgeted".
C7_UnbudgetedRows ==
    IsComparison =>
        \A c \in ActualKeys :
            (~\E b \in RequestedBudgets : b.categoryId = c) =>
                Cardinality({i \in DOMAIN resp.body :
                    /\ resp.body[i].status = "unbudgeted"
                    /\ resp.body[i].category._id = KeyId(c)
                    /\ resp.body[i].budgeted = 0
                    /\ resp.body[i].actual = ActualTotal(c)
                    /\ resp.body[i].difference = 0 - ActualTotal(c)
                    /\ resp.body[i].percentage = FromInt(100)}) = 1

\* position of a row in the list before it is sorted
InsertionIndex(r) == CHOOSE i \in DOMAIN locals.comparison : locals.comparison[i] = r

\* C8: the list is ordered by non-increasing percentageUsed, and rows of equal
\* percentageUsed keep their insertion order.
C8_SortedStable ==
    IsComparison =>
        /\ Len(resp.body) = Len(locals.comparison)
        /\ Rows = {locals.comparison[i] : i \in DOMAIN locals.comparison}
        /\ \A i, j \in DOMAIN resp.body :
              i < j =>
                 /\ ~RatLess(resp.body[i].percentage, resp.body[j].percentage)
                 /\ resp.body[i].percentage = resp.body[j].percentage =>
                        InsertionIndex(resp.body[i]) < InsertionIndex(resp.body[j])

\* a list the sort had to reorder, with two rows of equal percentageUsed
C8_Witness ==
    /\ IsComparison
    /\ resp.body # locals.comparison
    /\ \E i, j \in DOMAIN resp.body :
          i < j /\ resp.body[i].percentage = resp.body[j].percentage

(***************************************************************************)
(* Properties of categorySummary.                                          *)
(***************************************************************************)
IsCategorySummary == req.op = "categorySummary" /\ resp.status = 200

\* the transactions a categorySummary request selects
Selected ==
    {t \in BagToSet(transactions) :
        /\ DateKey(t.date) >= DateKey(req.start)
        /\ DateKey(t.date) <= DateKey(req.end)
        /\ t.type = req.type}

StrictlyDescending(rows) ==
    \A i, j \in DOMAIN rows : i < j => rows[i].value > rows[j].value

AnalyticsOps ==
    {"monthlySummary", "categorySummary", "monthlyExpenses",
     "dashboardSummary", "budgetComparison", "insights"}

\* the queries a handler awaits, in the order of its try block
QueriesOf(op) ==
    CASE op = "monthlySummary" -> MonthlySummaryQueries
      [] op = "categorySummary" -> CategorySummaryQueries
      [] op = "monthlyExpenses" -> MonthlyExpensesQueries
      [] op = "dashboardSummary" -> DashboardSummaryQueries
      [] op = "budgetComparison" -> BudgetComparisonQueries
      [] op = "insights" -> InsightsQueries

\* the handler caught a rejected store query
QueryRejected == "error" \in DOMAIN locals

\* C11: no analytics operation, answered with a result or with an error,
\* changes the stored transactions, budgets or categories.
C11_AnalyticsReadOnly ==
    [][req'.op \in AnalyticsOps => UNCHANGED <<transactions, budgets, categories>>]_vars

\* a failed analytics call over a store that holds documents of every kind
C11_Witness ==
    /\ req.op \in AnalyticsOps
    /\ resp.status = 500
    /\ transactions # EmptyBag
    /\ budgets # {}
    /\ \E c \in categories : ~c.isDefault

\* the categories stored under an id
CategoryOf(id) == {c \in categories : c._id = id}

\* C12: budgetComparison answers with a list whatever references are
\* missing: a budget of the month whose category no longer exists, and an
\* expense total whose category id resolves to no category, are each
\* reported under the Uncategorized sentinel.
C12_MissingReferenceSentinel ==
    (req.op = "budgetComparison" /\ ~QueryRejected) =>
        /\ resp.status = 200
        /\ \A b \in RequestedBudgets :
              CategoryOf(b.categoryId) = {} =>
                 \E r \in Rows : r.id = b._id /\ r.category.name = Uncategorized
        /\ \A c \in ActualKeys :
              (CategoryOf(c) = {} /\ ~\E b \in RequestedBudgets : b.categoryId = c) =>
                 \E r \in Rows :
                    /\ r.status = "unbudgeted"
                    /\ r.category.name = Uncategorized
                    /\ r.actual = ActualTotal(c)

\* the store holds no transaction and no budget
EmptyStore == transactions = EmptyBag /\ budgets = {}

\* C13: over an empty store every analytics operation whose queries resolve
\* answers 200 with a well-formed result: 12 zero entries (monthlySummary,
\* monthlyExpenses), an empty list (categorySummary, budgetComparison), zero
\* totals and empty lists (dashboardSummary), a current total of 0, no
\* highest spending day and no changes (insights).
C13_EmptyStoreWellFormed ==
    (EmptyStore /\ req.op \in AnalyticsOps /\ ~QueryRejected) =>
        /\ resp.status = 200
        /\ req.op = "monthlySummary" =>
              /\ DOMAIN resp.body = 1..12
              /\ \A m \in 1..12 :
                    /\ resp.body[m].month = m
                    /\ AmountsOf(resp.body[m], "expense") = {0}
                    /\ AmountsOf(resp.body[m], "income") = {0}
        /\ req.op = "monthlyExpenses" =>
              /\ DOMAIN resp.body = 1..12
              /\ \A m \in 1..12 : resp.body[m].month = m /\ resp.body[m].amount = 0
        /\ req.op \in {"categorySummary", "budgetComparison"} => resp.body = <<>>
        /\ req.op = "dashboardSummary" =>
              /\ resp.body.currentMonth = [income |-> 0, expense |-> 0, balance |-> 0]
              /\ resp.body.previousMonth = [income |-> 0, expense |-> 0, balance |-> 0]
              /\ resp.body.topCategories = <<>>
              /\ resp.body.recentTransactions = <<>>
        /\ req.op = "insights" =>
              /\ resp.body.currentMonthToDate.total = 0
              /\ resp.body.highestSpendingDay = <<>>
              /\ resp.body.significantChanges = <<>>

\* the insights asked of a store without transactions and budgets
C13_Witness ==
    /\ EmptyStore
    /\ req.op = "insights"
    /\ resp.status = 200
    /\ resp.body.currentMonthToDate.transactionCount = 0

\* no element of a sequence occurs twice
NoRepeat(seq) == \A i, j \in DOMAIN seq : seq[i] = seq[j] => i = j

\* C14: when a store query of an analytics operation fails, the operation
\* answers 500 with the error's message and no result data, the failed query
\* is the last one issued (the remaining ones are skipped), and no query is
\* issued twice.
C14_FailureSurfacedOnce ==
    req.op \in AnalyticsOps =>
        /\ NoRepeat(queries)
        /\ queries = SubSeq(QueriesOf(req.op), 1, Len(queries))
        /\ QueryRejected =>
              /\ resp = [status |-> 500, body |-> <<"Server error", locals.error>>]
              /\ queries # <<>>
              /\ queries[Len(queries)] = locals.query

\* the third of the five queries of insights failed: two went before it and
\* the last two were never issued
C14_Witness ==
    /\ req.op = "insights"
    /\ QueryRejected
    /\ Len(queries) = 3
    /\ transactions # EmptyBag

(***************************************************************************)
(* Properties of insights.                                                 *)
(***************************************************************************)
IsInsights == req.op = "insights" /\ resp.status = 200

\* the expense transactions of the current period: the month of the
\* request up to its instant
CurrentExpenses ==
    {t \in BagToSet(transactions) :
        t.type = "expense" /\ InRange(t, MonthStart(req.now), req.now)}

\* the expense transactions of the previous period: the month before
PreviousExpenses ==
    {t \in BagToSet(transactions) :
        t.type = "expense"
        /\ InRange(t, PrevMonthStart(req.now), MonthEnd(PrevMonthStart(req.now)))}

\* the delta entries insights computed for category c
EntriesOf(c) ==
    {i \in DOMAIN locals.categoryChanges : locals.categoryChanges[i].categoryId = c}

\* C15: every category with expense activity in the current or the previous
\* period has one delta entry with its two amounts and change =
\* percentChange(currentAmount, previousAmount); one with previous activity
\* only is entered with currentAmount 0 and change -100.
C15_DeltaPerCategory ==
    IsInsights =>
        \A c \in {t.categoryId : t \in CurrentExpenses \cup PreviousExpenses} :
            /\ Cardinality(EntriesOf(c)) = 1
            /\ \A i \in EntriesOf(c) :
                  LET e == locals.categoryChanges[i]
                      cur == {t \in CurrentExpenses : t.categoryId = c}
                      prev == {t \in PreviousExpenses : t.categoryId = c}
                  IN  /\ e.currentAmount = SumOver(cur, transactions)
                      /\ e.previousAmount = SumOver(prev, transactions)
                      /\ IsChangeOf(e.change, e.currentAmount, e.previousAmount)
                      /\ cur = {} => (e.currentAmount = 0 /\ e.change = FromInt(0 - 100))

\* the calendar day of a transaction
CalendarDay(t) == <<t.date.year, t.date.month, t.date.day>>

\* the amount spent on a day of the current period: the magnitudes of the
\* day's expense amounts
SpentOn(day) ==
    SumOver({t \in CurrentExpenses : CalendarDay(t) = day /\ t.amount > 0}, transactions)
    - SumOver({t \in CurrentExpenses : CalendarDay(t) = day /\ t.amount < 0}, transactions)

\* C17: the highest spending day is a day of the current period on which
\* the amount spent is maximal, reported with the day's sum and record count;
\* it is absent exactly when the period has no expense record.
C17_HighestSpendingDay ==
    IsInsights =>
        /\ (resp.body.highestSpendingDay = <<>>) <=> (CurrentExpenses = {})
        /\ \A i \in DOMAIN resp.body.highestSpendingDay :
              LET h == resp.body.highestSpendingDay[i]
                  recs == {t \in CurrentExpenses : CalendarDay(t) = h.date}
              IN  /\ recs # {}
                  /\ \A t \in CurrentExpenses : SpentOn(CalendarDay(t)) <= SpentOn(h.date)
                  /\ h.amount = SumOver(recs, transactions)
                  /\ h.transactions = CountOver(recs, transactions)

\* the lengths of the months of a common year
MonthLengths == <<31, 28, 31, 30, 31, 30, 31, 31, 30, 31, 30, 31>>

\* the instant lies on the last calendar day of its month
OnLastDay(now) ==
    now.day = MonthLengths[now.month] + (IF now.month = 2 /\ IsLeap(now.year) THEN 1 ELSE 0)

\* C18: dailyAverage = currentTotal / dayOfPeriod with a divisor of at least
\* 1, projectedTotal = dailyAverage * daysInPeriod, and on the last day of
\* the period projectedTotal equals currentTotal.
C18_Projection ==
    IsInsights =>
        LET total == resp.body.currentMonthToDate.total
            avg == locals.dailyAverage
            proj == locals.projectedTotal
        IN  /\ locals.dayOfMonth >= 1
            /\ locals.dayOfMonth = req.now.day
            /\ avg.d > 0 /\ proj.d > 0
            /\ avg.n * locals.dayOfMonth = total * avg.d
            /\ proj.n * avg.d = avg.n * locals.daysInMonth * proj.d
            /\ OnLastDay(req.now) =>
                  /\ proj = FromInt(total)
                  /\ resp.body.projectedSpending.total = 100 * total

\* a projection made on the last day of a month with spending, where the
\* daily average is not a whole number
C18_Witness ==
    /\ IsInsights
    /\ OnLastDay(req.now)
    /\ resp.body.currentMonthToDate.total # 0
    /\ locals.dailyAverage.d > 1
    /\ locals.projectedTotal = FromInt(resp.body.currentMonthToDate.total)

\* the entry of the ranked list that a returned change was made from
EntryNamed(name) ==
    CHOOSE e \in {locals.entries[j] : j \in DOMAIN locals.entries} : e.name = name

\* C16: the significant changes are min(3, number of delta entries) of the
\* entries, in non-increasing order of the absolute value of their percent
\* change, and no omitted entry has a larger absolute percent change than a
\* returned one.
C16_TopThreeByAbsChange ==
    req.op = "significantChanges" =>
        LET out == resp.body.significantChanges
            entries == {locals.entries[j] : j \in DOMAIN locals.entries}
            returned == {out[i].category : i \in DOMAIN out}
        IN  /\ Len(out) = (IF Len(locals.entries) < 3 THEN Len(locals.entries) ELSE 3)
            /\ Cardinality(returned) = Len(out)
            /\ \A i \in DOMAIN out :
                  /\ \E e \in entries : e.name = out[i].category
                  /\ out[i].currentAmount = EntryNamed(out[i].category).currentAmount
                  /\ out[i].previousAmount = EntryNamed(out[i].category).previousAmount
                  /\ out[i].percentageChange = ToFixed2(EntryNamed(out[i].category).change)
            /\ \A i, k \in DOMAIN out :
                  i < k => ~RatLess(RatAbs(EntryNamed(out[i].category).change),
                                    RatAbs(EntryNamed(out[k].category).change))
            /\ \A e \in entries :
                  e.name \notin returned =>
                      \A i \in DOMAIN out :
                          ~RatLess(RatAbs(EntryNamed(out[i].category).change), RatAbs(e.change))

\* four entries, the one pushed last being a decrease that outranks an
\* earlier entry: three are returned, that decrease first
C16_Witness ==
    /\ req.op = "significantChanges"
    /\ Len(locals.entries) = 4
    /\ Len(resp.body.significantChanges) = 3
    /\ resp.body.significantChanges[1].category = "k4"
    /\ ~resp.body.significantChanges[1].increasing
    /\ \E j \in 1..3 :
          RatLess(RatAbs(locals.entries[j].change), RatAbs(locals.entries[4].change))

(***************************************************************************)
(* Properties of dashboardSummary.                                         *)
(***************************************************************************)
IsDashboard == req.op = "dashboardSummary" /\ resp.status = 200

\* the expense transactions the dashboard reads for the current month
MonthExpenses ==
    {t \in BagToSet(transactions) :
        t.type = "expense" /\ InRange(t, MonthStart(req.now), MonthEnd(req.now))}

\* the amount spent on the category with the reported id: the magnitudes of
\* the amounts of its expenses of the month
SpentOnCategory(id) ==
    SumOver({t \in MonthExpenses : KeyId(t.categoryId) = id /\ t.amount > 0}, transactions)
    - SumOver({t \in MonthExpenses : KeyId(t.categoryId) = id /\ t.amount < 0}, transactions)

\* C19: topCategories holds min(3, number of categories with expenses in the
\* current month) rows, the categories on which the most was spent, from the
\* largest spending total to the smallest.
C19_TopCategoriesBySpending ==
    IsDashboard =>
        LET top == resp.body.topCategories
            ids == {KeyId(t.categoryId) : t \in MonthExpenses}
            listed == {top[i].id : i \in DOMAIN top}
        IN  /\ Len(top) = (IF Cardinality(ids) < 3 THEN Cardinality(ids) ELSE 3)
            /\ Cardinality(listed) = Len(top)
            /\ listed \subseteq ids
            /\ \A i, k \in DOMAIN top :
                  i < k => SpentOnCategory(top[i].id) >= SpentOnCategory(top[k].id)
            /\ \A id \in ids \ listed :
                  \A i \in DOMAIN top : SpentOnCategory(id) <= SpentOnCategory(top[i].id)

\* a returned transaction is the stored document t with its category joined
IsPopulated(o, t) ==
    /\ o.amount = t.amount
    /\ o.type = t.type
    /\ o.date = t.date
    /\ o.categoryId._id = t.categoryId

\* C20: recentTransactions holds min(5, number of stored transactions)
\* stored transactions in non-increasing order of date, and no transaction
\* left out has a later date than one that is included.
C20_FiveMostRecent ==
    IsDashboard =>
        LET out == resp.body.recentTransactions
            n == BagCardinality(transactions)
            TimesIn(t) == Cardinality({i \in DOMAIN out : IsPopulated(out[i], t)})
        IN  /\ Len(out) = (IF n < 5 THEN n ELSE 5)
            /\ \A i \in DOMAIN out : \E t \in BagToSet(transactions) : IsPopulated(out[i], t)
            /\ \A i, k \in DOMAIN out :
                  i < k => DateKey(out[i].date) >= DateKey(out[k].date)
            /\ \A t \in BagToSet(transactions) :
                  /\ TimesIn(t) <= CopiesIn(t, transactions)
                  /\ TimesIn(t) < CopiesIn(t, transactions) =>
                        \A i \in DOMAIN out : DateKey(out[i].date) >= DateKey(t.date)

\* six stored transactions of which five are returned: both dates occur
\* among the five, and a transaction of the earlier date is left out
C20_Witness ==
    /\ IsDashboard
    /\ BagCardinality(transactions) = 6
    /\ Len(resp.body.recentTransactions) = 5
    /\ resp.body.recentTransactions[1].date # resp.body.recentTransactions[5].date
    /\ \E i \in 1..4 :
          /\ resp.body.recentTransactions[i].date = resp.body.recentTransactions[i + 1].date
          /\ resp.body.recentTransactions[i] # resp.body.recentTransactions[i + 1]

(***************************************************************************)
(* Properties under the stored-amount convention and of the date ranges.   *)
(***************************************************************************)
\* the expense transactions of category c that the comparison reads
ExpensesRead(c) ==
    {t \in BagToSet(transactions) :
        /\ t.type = "expense"
        /\ t.categoryId = c
        /\ InMonthRange(t, req.month, req.year)}

\* C25: with expenses stored as negative amounts, a budgeted category whose
\* spending of the month is greater than its budget has status "exceeded"
\* and a negative difference; one whose spending is at most its budget has
\* status "within" and a percentageUsed between 0 and 100.
C25_ExceededUnderConvention ==
    IsComparison =>
        \A r \in BudgetRowsOut :
            LET read == ExpensesRead(r.category._id)
                spending == 0 - SumOver(read, transactions)
            IN  (\A t \in read : t.amount < 0) =>
                   /\ spending > r.budgeted => (r.status = "exceeded" /\ r.difference < 0)
                   /\ spending <= r.budgeted =>
                         /\ r.status = "within"
                         /\ ~RatLess(r.percentage, FromInt(0))
                         /\ ~RatLess(FromInt(100), r.percentage)

\* C26: categorySummary has exactly one row for each category that a
\* selected transaction refers to through categoryId, with the sum of those
\* transactions and the name and color of that category.
C26_RowPerCategory ==
    IsCategorySummary =>
        /\ Len(resp.body) = Cardinality({t.categoryId : t \in Selected})
        /\ \A c \in {t.categoryId : t \in Selected} :
              \E i \in DOMAIN resp.body :
                  /\ resp.body[i].id = KeyId(c)
                  /\ resp.body[i].value =
                         SumOver({t \in Selected : t.categoryId = c}, transactions)
                  /\ \A k \in CategoryOf(c) :
                         resp.body[i].name = k.name /\ resp.body[i].color = k.color

\* C27: each category is in at most one row of budgetComparison; a category
\* with a budget of the month, also one of amount 0 without spending, has no
\* "unbudgeted" row; unbudgeted rows come from categories with an actual
\* total and no budget.
C27_OneRowPerCategory ==
    IsComparison =>
        /\ \A i, j \in DOMAIN resp.body :
              resp.body[i].category._id = resp.body[j].category._id => i = j
        /\ \A b \in RequestedBudgets :
              /\ \E r \in BudgetRowsOut : r.id = b._id
              /\ ~\E r \in Rows : r.status = "unbudgeted" /\ r.category._id = b.categoryId
        /\ \A r \in Rows :
              r.status = "unbudgeted" =>
                  /\ r.category._id \in ActualKeys
                  /\ ~\E b \in RequestedBudgets : b.categoryId = r.category._id

\* a budget of 0 without spending and a budget with spending, next to an
\* unbudgeted row of a third category
C27_Witness ==
    /\ IsComparison
    /\ \E r \in BudgetRowsOut : r.budgeted = 0 /\ r.actual = 0 /\ r.status = "within"
    /\ \E r \in BudgetRowsOut : r.actual # 0
    /\ \E r \in Rows : r.status = "unbudgeted"

\* C28: monthlySummary(Y) counts every transaction of year Y in the entry
\* of its calendar month, whatever its time of day: also one dated on 31
\* December after midnight.
C28_LastDayCounted ==
    IsMonthly =>
        \A m \in 1..12 :
            /\ AmountsOf(resp.body[m], "expense") =
                  {SumOver({t \in TxInMonth(req.year, m) : t.type = "expense"}, transactions)}
            /\ AmountsOf(resp.body[m], "income") =
                  {SumOver({t \in TxInMonth(req.year, m) : t.type = "income"}, transactions)}

\* C30: the percentage change of the projected spending follows the
\* zero-baseline policy: ((projectedTotal - lastMonthTotal) / lastMonthTotal)
\* * 100 when last month's total is not 0, and 100 when it is 0.
C30_ProjectedChangePolicy ==
    IsInsights =>
        LET last == resp.body.lastMonth.total
        IN  resp.body.projectedSpending.percentageChange =
               (IF last = 0 THEN ToFixed2(FromInt(100))
                ELSE ToFixed2(RatPercentOf(locals.projectedTotal, FromInt(last))))

(***************************************************************************)
(* Transactions without a category and transactions of a deleted one.      *)
(***************************************************************************)
\* an id that belongs to no stored category
DeletedCategoryId == "c9"

UncategorizedTx ==
    {MkTx(-50, "expense", Null, MkDate(2025, 3, 5, 0)),
     MkTx(-30, "expense", DeletedCategoryId, MkDate(2025, 3, 5, 0)),
     MkTx(-20, "expense", "c1", MkDate(2025, 3, 10, 0))}

NextUncategorized ==
    \/ \E t \in UncategorizedTx : BagCardinality(transactions) < MaxTx /\ PostTransaction(t)
    \/ \E t \in BagToSet(transactions) : DeleteTransaction(t)
    \/ CategorySummary(MkDate(2025, 3, 1, 0), MkDate(2025, 3, 31, 0), "expense")
    \/ DashboardSummary(MkDate(2025, 3, 15, 12))

SpecUncategorized == Init /\ [][NextUncategorized]_vars

\* the rows of a category-keyed grouping, and the transactions grouped
GroupedRows ==
    IF IsDashboard THEN resp.body.topCategories
    ELSE IF IsCategorySummary THEN resp.body
    ELSE <<>>

GroupedTx == IF IsDashboard THEN MonthExpenses ELSE Selected

\* C21: in categorySummary and in the dashboard's topCategories, the
\* transactions without a category reference and those whose reference
\* resolves to no stored category are in one row, of id "uncategorized",
\* name "Uncategorized" and the default color; no result has two rows
\* named "Uncategorized".
C21_OneUncategorizedRow ==
    (IsDashboard \/ IsCategorySummary) =>
        LET named == {i \in DOMAIN GroupedRows : GroupedRows[i].name = Uncategorized}
        IN  /\ Cardinality(named) <= 1
            /\ (\E t \in GroupedTx : CategoryOf(t.categoryId) = {}) =>
                   \E i \in named :
                       /\ GroupedRows[i].id = "uncategorized"
                       /\ GroupedRows[i].color = DefaultColor

(***************************************************************************)
(* The category store under create, update and delete requests.            *)
(***************************************************************************)
CustomCategoryIds == {"c4", "c5"}

NewNames == {"Pets", "PETS", "HOUSING"}

UpdateBodies ==
    {[name |-> n] : n \in NewNames}
    \cup {[type |-> "income"], [color |-> "#000000"], [isDefault |-> FALSE]}

NextCategories ==
    \/ \E id \in CustomCategoryIds, n \in NewNames : CreateCategory(id, n)
    \/ \E id \in {"c1"} \cup CustomCategoryIds, body \in UpdateBodies : UpdateCategory(id, body)
    \/ \E id \in {"c1"} \cup CustomCategoryIds : DeleteCategory(id)

SpecCategories == Init /\ [][NextCategories]_vars

\* C23: after any sequence of category create and update requests no two
\* stored categories have names that are equal when case is ignored.
C23_NamesUniqueIgnoringCase ==
    \A c, d \in categories : LowerCase(c.name) = LowerCase(d.name) => c = d

\* the categories the seed stores with isDefault true
DefaultCategories == {CatFood, CatHouse, CatTransport}

\* C24: a category stored with isDefault true stays stored under its name
\* whatever PUT and DELETE requests are made, and a PUT with a name or a
\* type for it, or a DELETE of it, is answered 403.
C24_DefaultProtected ==
    /\ \A d \in DefaultCategories :
          \E c \in categories : c._id = d._id /\ c.name = d.name
    /\ \A d \in DefaultCategories :
          (/\ req.op \in {"updateCategory", "deleteCategory"}
           /\ req.id = d._id
           /\ req.op = "updateCategory" => {"name", "type"} \cap DOMAIN req.body # {})
          => resp.status = 403

(***************************************************************************)
(* The client's context providers: TransactionContext and CategoryContext  *)
(* have the same reducer and the same calls, on their own list of items.   *)
(***************************************************************************)
ServerUntouched ==
    UNCHANGED <<transactions, budgets, categories, req, locals, resp, prevResp, queries,
                pending>>

\* an item as the API returns it: its id and the revision of its content
Item(id, rev) == [_id |-> id, rev |-> rev]

\* the ids the API hands out
ItemIds == {1, 2}

\* transactionReducer, categoryReducer
Reducer(state, action) ==
    CASE action.type = "FETCH_START" ->
            [state EXCEPT !.loading = TRUE, !.error = Null]
      [] action.type = "FETCH_SUCCESS" ->
            [state EXCEPT !.items = action.payload, !.loading = FALSE]
      [] action.type = "FETCH_ERROR" ->
            [state EXCEPT !.loading = FALSE, !.error = action.payload]
      [] action.type = "ADD" ->
            [state EXCEPT !.items = Append(@, action.payload)]
      [] action.type = "UPDATE" ->
            [state EXCEPT !.items =
                [i \in DOMAIN @ |->
                    IF @[i]._id = action.payload._id THEN action.payload ELSE @[i]]]
      [] action.type = "DELETE" ->
            [state EXCEPT !.items = SelectSeq(@, LAMBDA x : x._id # action.payload)]
      [] OTHER -> state

\* a call of the provider that has been started and has not completed
Call(kind, arg) == [kind |-> kind, arg |-> arg]

\* the provider mounts: the effect starts loadTransactions (loadCategories),
\* which dispatches FETCH_START and awaits getAll
LoadStart(st) ==
    /\ ~client[st].mounted
    /\ client' = [client EXCEPT
           ![st].state = Reducer(@, [type |-> "FETCH_START"]),
           ![st].mounted = TRUE,
           ![st].calls = @ (+) SetToBag({Call("load", Null)})]
    /\ ServerUntouched

\* getAll resolves with a list (anything else counts as the empty list)
LoadDone(st, list) ==
    /\ BagIn(Call("load", Null), client[st].calls)
    /\ client' = [client EXCEPT
           ![st].state = Reducer(@, [type |-> "FETCH_SUCCESS", payload |-> list]),
           ![st].calls = @ (-) SetToBag({Call("load", Null)})]
    /\ ServerUntouched

\* getAll rejects: FETCH_ERROR, then FETCH_SUCCESS with the empty list
LoadError(st) ==
    /\ BagIn(Call("load", Null), client[st].calls)
    /\ client' = [client EXCEPT
           ![st].state =
               Reducer(Reducer(@, [type |-> "FETCH_ERROR", payload |-> "Network Error"]),
                       [type |-> "FETCH_SUCCESS", payload |-> <<>>]),
           ![st].calls = @ (-) SetToBag({Call("load", Null)})]
    /\ ServerUntouched

\* addTransaction, updateTransaction, deleteTransaction (and the category
\* ones) up to their await: FETCH_START is dispatched and the request sent
CallStart(st, kind, arg) ==
    /\ client[st].mounted
    /\ BagCardinality(client[st].calls) < MaxInFlight
    /\ kind = "add" =>
          Len(client[st].state.items) + BagCardinality(client[st].calls) < MaxItems
    /\ client' = [client EXCEPT
           ![st].state = Reducer(@, [type |-> "FETCH_START"]),
           ![st].calls = @ (+) SetToBag({Call(kind, arg)})]
    /\ ServerUntouched

\* the request of a started call resolves: the call dispatches its own
\* action with the value the API returned
CallDone(st, c) ==
    /\ BagIn(c, client[st].calls)
    /\ c.kind \in CallKinds
    /\ LET action ==
               CASE c.kind = "add" -> [type |-> "ADD", payload |-> Item(c.arg, 0)]
                 [] c.kind = "update" -> [type |-> "UPDATE", payload |-> Item(c.arg, 1)]
                 [] c.kind = "delete" -> [type |-> "DELETE", payload |-> c.arg]
       IN  client' = [client EXCEPT
              ![st].state = Reducer(@, action),
              ![st].calls = @ (-) SetToBag({c})]
    /\ ServerUntouched

\* the request of a started call rejects: FETCH_ERROR, and the call throws
CallError(st, c) ==
    /\ BagIn(c, client[st].calls)
    /\ c.kind \in CallKinds
    /\ client' = [client EXCEPT
           ![st].state = Reducer(@, [type |-> "FETCH_ERROR", payload |-> "Network Error"]),
           ![st].calls = @ (-) SetToBag({c})]
    /\ ServerUntouched

\* the lists getAll returns
ServerLists == {<<>>, <<Item(1, 0)>>}

NextClient ==
    \E st \in Stores :
        \/ LoadStart(st)
        \/ \E list \in ServerLists : LoadDone(st, list)
        \/ LoadError(st)
        \/ \E kind \in CallKinds, id \in ItemIds : CallStart(st, kind, id)
        \/ \E c \in BagToSet(client[st].calls) : CallDone(st, c)
        \/ \E c \in BagToSet(client[st].calls) : CallError(st, c)

SpecClient == Init /\ [][NextClient]_vars

\* C29: in the client's transaction store and category store, loading is
\* true only while a request of the store is in flight: when every started
\* request has completed, with success or with an error, loading is false.
C29_LoadingOnlyInFlight ==
    \A st \in Stores :
        client[st].state.loading => BagCardinality(client[st].calls) > 0

(***************************************************************************)
(* POST and PUT /api/budgets, one step per await, with several requests    *)
(* in flight.                                                              *)
(***************************************************************************)
\* Budget.findOne({ category: undefined, month, year, _id: { $ne: id } }):
\* the schema has no category path and the value is undefined, so the
\* condition excludes nothing, whether the build drops it or sends it as
\* null: the budgets of the month other than id match
ExistingBudget(month, year, id) ==
    {b \in budgets : b.month = month /\ b.year = year /\ b._id # id}

\* the _id of a new document
NewBudgetId ==
    CHOOSE i \in 1..(Cardinality(budgets) + 1) :
        /\ \A o \in budgets : o._id # i
        /\ \A j \in 1..(i - 1) : \E o \in budgets : o._id = j

\* populate('category', ...) names a path the schema does not have: a build
\* with strictPopulate throws after the write, another one ignores the path
PopulateOutcomes == {"ignored", "StrictPopulateError"}

BudgetNoChange == UNCHANGED <<transactions, categories, client>>

\* a handler stops at an await: nothing is answered yet
Awaiting(s, r, position) ==
    /\ pending' = [pending EXCEPT ![s] = position]
    /\ req' = r
    /\ resp' = NoResp
    /\ queries' = <<>>

\* a handler answers and ends
Answer(s, r, status, body) ==
    /\ pending' = [pending EXCEPT ![s] = Idle]
    /\ req' = r
    /\ resp' = [status |-> status, body |-> body]
    /\ queries' = <<>>

\* POST /api/budgets with a valid body, up to the save
PostBudgetFind(s, body) ==
    /\ pending[s] = Idle
    /\ LET r == [op |-> "postBudget", body |-> body]
       IN  IF ExistingBudget(body.month, body.year, 0) # {}
           THEN Answer(s, r, 400, <<"Budget already exists for this category and month/year">>)
           ELSE Awaiting(s, r, [pc |-> "save", body |-> body])
    /\ locals' = NoLocals
    /\ prevResp' = NoResp
    /\ UNCHANGED budgets
    /\ BudgetNoChange

\* POST /api/budgets from the save on
PostBudgetSave(s) ==
    /\ pending[s].pc = "save"
    /\ LET body == pending[s].body
           r == [op |-> "postBudget", body |-> body]
           newBudget == MkBudget(NewBudgetId, body.categoryId, body.amount,
                                 body.month, body.year)
       IN  IF IndexAllows(newBudget)
           THEN /\ budgets' = budgets \cup {newBudget}
                /\ \E outcome \in PopulateOutcomes :
                      IF outcome = "ignored"
                      THEN Answer(s, r, 201, <<newBudget>>)
                      ELSE Answer(s, r, 500, <<"Server error", outcome>>)
           ELSE /\ budgets' = budgets
                /\ Answer(s, r, 500, <<"Server error", "E11000 duplicate key">>)
    /\ locals' = NoLocals
    /\ prevResp' = NoResp
    /\ BudgetNoChange

\* PUT /api/budgets/:id with a month or a year in the body: Budget.findById
PutBudgetFindById(s, id, body) ==
    /\ pending[s] = Idle
    /\ {"month", "year"} \cap DOMAIN body # {}
    /\ LET r == [op |-> "putBudget", id |-> id, body |-> body]
           found == {b \in budgets : b._id = id}
       IN  IF found = {}
           THEN Answer(s, r, 404, <<"Budget not found">>)
           ELSE Awaiting(s, r, [pc |-> "findOne", id |-> id, body |-> body,
                                budget |-> CHOOSE b \in found : TRUE])
    /\ locals' = NoLocals
    /\ prevResp' = NoResp
    /\ UNCHANGED budgets
    /\ BudgetNoChange

\* PUT /api/budgets/:id: the lookup of another budget
PutBudgetFindOne(s) ==
    /\ pending[s].pc = "findOne"
    /\ LET id == pending[s].id
           body == pending[s].body
           budget == pending[s].budget
           r == [op |-> "putBudget", id |-> id, body |-> body]
           month == IF "month" \in DOMAIN body THEN body.month ELSE budget.month
           year == IF "year" \in DOMAIN body THEN body.year ELSE budget.year
       IN  IF ExistingBudget(month, year, id) # {}
           THEN Answer(s, r, 400, <<"Budget already exists for this category and month/year">>)
           ELSE Awaiting(s, r, [pc |-> "update", id |-> id, body |-> body])
    /\ locals' = NoLocals
    /\ prevResp' = NoResp
    /\ UNCHANGED budgets
    /\ BudgetNoChange

\* Budget.findByIdAndUpdate(id, { $set: body }, { new: true }).populate(...)
\* and the answer
FindByIdAndUpdate(s, id, body) ==
    LET r == [op |-> "putBudget", id |-> id, body |-> body]
        found == {b \in budgets : b._id = id}
    IN  IF found = {}
        THEN /\ budgets' = budgets
             /\ Answer(s, r, 404, <<"Budget not found">>)
        ELSE LET updatedBudget == SetFields(CHOOSE b \in found : TRUE, body)
             IN  IF IndexAllows(updatedBudget)
                 THEN /\ budgets' = (budgets \ found) \cup {updatedBudget}
                      /\ \E outcome \in PopulateOutcomes :
                            IF outcome = "ignored"
                            THEN Answer(s, r, 200, <<updatedBudget>>)
                            ELSE Answer(s, r, 500, <<"Server error", outcome>>)
                 ELSE /\ budgets' = budgets
                      /\ Answer(s, r, 500, <<"Server error", "E11000 duplicate key">>)

\* PUT /api/budgets/:id from the update on, after the lookups
PutBudgetUpdate(s) ==
    /\ pending[s].pc = "update"
    /\ FindByIdAndUpdate(s, pending[s].id, pending[s].body)
    /\ locals' = NoLocals
    /\ prevResp' = NoResp
    /\ BudgetNoChange

\* PUT /api/budgets/:id with neither month nor year in the body: the
\* lookups are skipped
PutBudgetDirect(s, id, body) ==
    /\ pending[s] = Idle
    /\ {"month", "year"} \cap DOMAIN body = {}
    /\ FindByIdAndUpdate(s, id, body)
    /\ locals' = NoLocals
    /\ prevResp' = NoResp
    /\ BudgetNoChange

PostBodies ==
    {[categoryId |-> c, amount |-> 400, month |-> 3, year |-> 2025] : c \in {"c1", "c2"}}

PutBodies == {[categoryId |-> "c1"], [categoryId |-> "c2"], [month |-> 4]}

NextBudgetRequests ==
    \E s \in Slots :
        \/ \E body \in PostBodies :
              Cardinality(budgets) < MaxBudgets /\ PostBudgetFind(s, body)
        \/ PostBudgetSave(s)
        \/ \E id \in 1..MaxBudgets, body \in PutBodies : PutBudgetFindById(s, id, body)
        \/ PutBudgetFindOne(s)
        \/ PutBudgetUpdate(s)
        \/ \E id \in 1..MaxBudgets, body \in PutBodies : PutBudgetDirect(s, id, body)

SpecBudgetRequests == Init /\ [][NextBudgetRequests]_vars

SameTuple(a, b) ==
    a.categoryId = b.categoryId /\ a.month = b.month /\ a.year = b.year

\* the document a budget request r asks to have stored: the new one of a
\* POST, the changed one of a PUT (none when the PUT names no stored budget)
Asked(r) ==
    IF r.op = "postBudget"
    THEN {MkBudget(0, r.body.categoryId, r.body.amount, r.body.month, r.body.year)}
    ELSE {SetFields(b, r.body) : b \in {o \in budgets : o._id = r.id}}

\* C22: whatever the interleaving of budget POST and PUT requests, no two
\* stored budgets have the same (categoryId, month, year); a request that
\* asks for a budget whose tuple another stored budget has already is
\* answered with an error and leaves the budgets as they are.
C22_OneBudgetPerTuple ==
    /\ [](\A a, b \in budgets : SameTuple(a, b) => a = b)
    /\ [][(/\ req'.op \in {"postBudget", "putBudget"}
            /\ resp' # NoResp
            /\ \E d \in Asked(req') :
                  \E o \in budgets : o._id # d._id /\ SameTuple(o, d))
           => (budgets' = budgets /\ resp'.status >= 400)]_vars

\* two POST requests for the same tuple passed the lookup together; the
\* save of the second one was refused by the index
C22_Witness ==
    /\ req.op = "postBudget"
    /\ resp = [status |-> 500, body |-> <<"Server error", "E11000 duplicate key">>]
    /\ Cardinality({b \in budgets : SameTuple(b, req.body)}) = 1

====
